---- MODULE Spec2Model ----
(***************************************************************************)
(* UnderSight backend: the access-control core (rbac.py, tenant.py), the   *)
(* tenant-context middleware (main.py) and the AI inventory pipeline       *)
(* (services/inventory.py), as state machines.                             *)
(*                                                                         *)
(* Five specifications share one set of variables:                         *)
(*   SpecAccess    - the pure access checks applied to enumerated inputs   *)
(*   SpecTenant    - concurrent requests through tenant_context_middleware *)
(*   SpecInventory - InventoryService.process_item / AIService.process_item*)
(*                   and the manual approve_item / reject_item             *)
(*   SpecBatch     - AIService.process_batch and                           *)
(*                   InventoryService.receive_from_n8n on several items    *)
(*   SpecApi       - requests to the handlers of api/v1/inventory.py       *)
(* SpecInventoryFair is SpecInventory with the steps of a run taken.       *)
(***************************************************************************)
EXTENDS Integers, Sequences, FiniteSets, TLC

VARIABLES
    op,      \* access: name of the last check that was called ("" at start)
    arg,     \* access: the inputs of that call
    out,     \* access: its outcome
    ctx,     \* TenantContext._context, the class-level dictionary
    rpc,     \* per request: position in tenant_context_middleware
    rtok,    \* per request: what the Authorization header decodes to
    rread,   \* per request: the last TenantContext read made by its handler
    lastw,   \* the last TenantContext.set or clear call and its arguments
    svc,     \* InventoryService instance: tenant_id and ai_service provider
    eq,      \* the EquipmentData being processed
    pc,      \* position of AIService.process_item / InventoryService.process_item
    resp,    \* what the backend did for this item
    ai_out,  \* the AIOutput returned by AIService.process_item
    item,    \* the item dictionary built by InventoryService.process_item
    calls,   \* number of backend HTTP calls made for this item
    stage,   \* how the AI run of this item went ("" when there was none)
    manual,  \* the approve_item / reject_item call made on the item, if any
    bop,     \* batch: the operation under way ("" at start)
    bpc,     \* batch: its position
    bsvc,    \* batch: the service instance, tenant_id and provider
    bitems,  \* batch: the input list
    btask,   \* process_batch: per item, the task running process_item
    bresults,\* receive_from_n8n: the results list built by the loop
    bret,    \* batch: what the operation returned or raised
    apc,     \* API: position of the request being served
    areq,    \* API: the request, its endpoint, caller and token
    auser,   \* API: the current_user the dependencies produced
    adecision, \* API: what the permission check answered for this request
    aresp,   \* API: the response
    aitems,  \* API: the items built while serving the request
    alog     \* API: the requests served so far

accessVars == <<op, arg, out>>
tenantVars == <<ctx, rpc, rtok, rread, lastw>>
inventoryVars == <<svc, eq, pc, resp, ai_out, item, calls, stage, manual>>
batchVars == <<bop, bpc, bsvc, bitems, btask, bresults, bret>>
vars == <<op, arg, out, ctx, rpc, rtok, rread, lastw,
          svc, eq, pc, resp, ai_out, item, calls, stage, manual,
          bop, bpc, bsvc, bitems, btask, bresults, bret,
          apc, areq, auser, adecision, aresp, aitems, alog>>
apiVars == <<apc, areq, auser, adecision, aresp, aitems, alog>>

-----------------------------------------------------------------------------
(* Bounds of the model *)

NumPerms == 3        \* permissions of the catalog a principal may hold
MaxPermList == 2     \* longest *permissions argument of any/all checks
NumTenants == 2      \* distinct tenants
NumRequests == 2     \* requests handled concurrently
MaxReads == 1        \* TenantContext reads one handler makes

-----------------------------------------------------------------------------
(* Python values *)

\* A key that a dict does not hold: what dict.get(key) returns.
NONE == "<None>"

\* Tenant identifiers keep their Python type: a uuid.UUID object, a str, or
\* None.  v is the text str() renders.
TenantNames == <<"t1", "t2", "t3", "t4">>
PyNone == [ty |-> "NoneType", v |-> "None"]
PyUuid(n) == [ty |-> "UUID", v |-> n]
PyText(s) == [ty |-> "str", v |-> s]
\* str(x)
PyStr(x) == [ty |-> "str", v |-> x.v]

TenantName == {TenantNames[i] : i \in 1..NumTenants}
\* tenant ids a principal dictionary may carry under "tenant_id"
UserTenantIds == {PyUuid(n) : n \in TenantName} \cup {PyText(n) : n \in TenantName}

-----------------------------------------------------------------------------
(* Permission catalog: class Permissions *)

Permissions ==
    { "alerts:read", "alerts:write", "alerts:delete",
      "cases:read", "cases:write", "cases:delete", "cases:manage",
      "assets:read", "assets:write", "assets:delete",
      "sensors:read", "sensors:write", "sensors:delete",
      "inventory:read", "inventory:write", "inventory:delete", "inventory:approve",
      "playbooks:read", "playbooks:write", "playbooks:execute",
      "users:read", "users:write",
      "roles:read", "roles:write",
      "settings:read", "settings:write",
      "integrations:read", "integrations:write",
      "webhooks:read", "webhooks:write",
      "api_keys:read", "api_keys:write",
      "audit_logs:read" }

AdminPermissionsShort == Permissions \ {"audit_logs:read"}

\* DEFAULT_ROLE_PERMISSIONS["admin"], as listed at lines 76-88
AdminPermissions ==
    { "alerts:read", "alerts:write", "alerts:delete",
      "cases:read", "cases:write", "cases:delete", "cases:manage",
      "assets:read", "assets:write", "assets:delete",
      "sensors:read", "sensors:write", "sensors:delete",
      "inventory:read", "inventory:write", "inventory:delete", "inventory:approve",
      "playbooks:read", "playbooks:write", "playbooks:execute",
      "users:read", "users:write",
      "roles:read", "roles:write",
      "settings:read", "settings:write",
      "integrations:read", "integrations:write",
      "webhooks:read", "webhooks:write",
      "api_keys:read", "api_keys:write",
      "audit_logs:read" }

\* DEFAULT_ROLE_PERMISSIONS["analyst"]
AnalystPermissions ==
    { "alerts:read", "alerts:write", "cases:read", "cases:write", "assets:read",
      "sensors:read", "inventory:read", "inventory:write", "inventory:approve",
      "playbooks:read", "playbooks:execute", "users:read" }

\* DEFAULT_ROLE_PERMISSIONS["viewer"]
ViewerPermissions ==
    { "alerts:read", "cases:read", "assets:read", "sensors:read", "inventory:read",
      "playbooks:read" }

\* DEFAULT_ROLE_PERMISSIONS.get(role, []); the lists hold no element twice
DEFAULT_ROLE_PERMISSIONS(role) ==
    IF role = "admin" THEN AdminPermissions
    ELSE IF role = "analyst" THEN AnalystPermissions
    ELSE IF role = "viewer" THEN ViewerPermissions
    ELSE {}

\* the permissions the enumerated principals and checks range over
PermOrder == <<"alerts:read", "inventory:write", "inventory:approve", "alerts:delete", "settings:write">>
PermSample == {PermOrder[i] : i \in 1..NumPerms}

\* *permissions tuples of require_any_permission / require_all_permissions
PermLists == UNION {[1..n -> PermSample] : n \in 0..MaxPermList}

-----------------------------------------------------------------------------
(* Principals: the current_user dictionaries, or None *)

TenantTypes == {"root", "provider", "customer", "sub_customer"}
TypeVals == TenantTypes \cup {"partner"}

\* A dictionary: keys is the set of keys it holds; a field whose key is not
\* held carries what .get(key) returns for it.
MkDict(k, r, p, t, tt, sa) ==
    [isNone |-> FALSE,
     keys |-> k,
     role |-> IF "role" \in k THEN r ELSE NONE,
     permissions |-> IF "permissions" \in k THEN p ELSE {},
     tenant_id |-> IF "tenant_id" \in k THEN t ELSE PyNone,
     tenant_type |-> IF "tenant_type" \in k THEN tt ELSE NONE,
     is_super_admin |-> IF "is_super_admin" \in k THEN sa ELSE FALSE]

\* current_user = None
NoUser == [isNone |-> TRUE, keys |-> {}, role |-> NONE, permissions |-> {},
           tenant_id |-> PyNone, tenant_type |-> NONE, is_super_admin |-> FALSE]

\* bool(current_user): None and the empty dictionary are falsy
Truthy(u) == ~u.isNone /\ u.keys # {}

\* principals for the permission checkers: identity, role and permissions vary
PermissionUsers ==
    {NoUser} \cup
    {MkDict(k, r, p, PyText(TenantNames[1]), "customer", FALSE) :
        k \in SUBSET {"id", "role", "permissions"}, r \in {"admin", "analyst", "viewer"}, p \in SUBSET PermSample}

\* principals for the resource check: role, permissions, tenant and flag vary
ResourceUsers ==
    {MkDict(k \cup {"id"}, r, p, t, "customer", sa) :
        k \in SUBSET {"role", "permissions", "tenant_id", "is_super_admin"},
        r \in {"admin", "viewer"}, p \in SUBSET PermSample,
        t \in UserTenantIds, sa \in BOOLEAN}

-----------------------------------------------------------------------------
(* Outcomes of a call *)

HTTP_401_UNAUTHORIZED == 401
HTTP_403_FORBIDDEN == 403

Return(u) ==
    [kind |-> "return", exc |-> "", status |-> 0, user |-> u, ok |-> FALSE, perms |-> {}]
ReturnBool(b) ==
    [kind |-> "return", exc |-> "", status |-> 0, user |-> NoUser,
     ok |-> b, perms |-> {}]
RaiseHTTP(code) ==
    [kind |-> "raise", exc |-> "HTTPException", status |-> code, user |-> NoUser,
     ok |-> FALSE, perms |-> {}]
RaiseError(e) ==
    [kind |-> "raise", exc |-> e, status |-> 0, user |-> NoUser,
     ok |-> FALSE, perms |-> {}]
ReturnList(l) ==
    [kind |-> "return", exc |-> "", status |-> 0, user |-> NoUser,
     ok |-> FALSE, perms |-> l]
NoOutcome ==
    [kind |-> "", exc |-> "", status |-> 0, user |-> NoUser,
     ok |-> FALSE, perms |-> {}]

-----------------------------------------------------------------------------
(* rbac.py: permission checkers *)

\* The names bound in the global namespace of rbac.py: its imports
\* (lines 7-9) and its own top-level definitions.
RbacGlobals ==
    { "Callable", "List", "Optional", "Request", "HTTPException", "status", "Session",
      "Permissions", "DEFAULT_ROLE_PERMISSIONS", "RBACMiddleware",
      "require_permission", "require_any_permission", "require_all_permissions",
      "ResourceAccessControl", "AccessAuditLogger" }

\* Executing "async def permission_checker(current_user: dict,
\* db: Session = Depends(get_db))" evaluates the default Depends(get_db)
\* when the enclosing require_* function runs; an unbound name raises.
CheckerDefault ==
    IF "Depends" \notin RbacGlobals \/ "get_db" \notin RbacGlobals
    THEN "NameError" ELSE "bound"

\* body of require_permission.permission_checker
permission_checker(permission, current_user) ==
    IF ~Truthy(current_user) THEN RaiseHTTP(HTTP_401_UNAUTHORIZED)
    ELSE IF current_user.role = "admin" THEN Return(current_user)
    ELSE IF permission \notin current_user.permissions THEN RaiseHTTP(HTTP_403_FORBIDDEN)
    ELSE Return(current_user)

\* await require_permission(permission)(current_user)
require_permission(permission, current_user) ==
    IF CheckerDefault = "NameError" THEN RaiseError("NameError")
    ELSE permission_checker(permission, current_user)

\* body of require_any_permission.permission_checker
any_permission_checker(permissions, current_user) ==
    IF ~Truthy(current_user) THEN RaiseHTTP(HTTP_401_UNAUTHORIZED)
    ELSE IF current_user.role = "admin" THEN Return(current_user)
    ELSE IF ~(\E i \in DOMAIN permissions : permissions[i] \in current_user.permissions)
         THEN RaiseHTTP(HTTP_403_FORBIDDEN)
    ELSE Return(current_user)

\* await require_any_permission(*permissions)(current_user)
require_any_permission(permissions, current_user) ==
    IF CheckerDefault = "NameError" THEN RaiseError("NameError")
    ELSE any_permission_checker(permissions, current_user)

\* body of require_all_permissions.permission_checker
all_permissions_checker(permissions, current_user) ==
    IF ~Truthy(current_user) THEN RaiseHTTP(HTTP_401_UNAUTHORIZED)
    ELSE IF current_user.role = "admin" THEN Return(current_user)
    ELSE IF ~(\A i \in DOMAIN permissions : permissions[i] \in current_user.permissions)
         THEN RaiseHTTP(HTTP_403_FORBIDDEN)
    ELSE Return(current_user)

\* await require_all_permissions(*permissions)(current_user)
require_all_permissions(permissions, current_user) ==
    IF CheckerDefault = "NameError" THEN RaiseError("NameError")
    ELSE all_permissions_checker(permissions, current_user)

-----------------------------------------------------------------------------
(* rbac.py: ResourceAccessControl *)

can_access_resource_bad(user, resource_tenant_id, permission) ==
    IF user.is_super_admin THEN TRUE
    ELSE IF user.role = "admin" THEN TRUE
    ELSE IF PyStr(user.tenant_id) # PyStr(resource_tenant_id) THEN FALSE
    ELSE permission \in user.permissions

can_access_resource(user, resource_tenant_id, permission) ==
    IF user.is_super_admin THEN TRUE
    ELSE IF PyStr(user.tenant_id) # PyStr(resource_tenant_id) THEN FALSE
    ELSE IF user.role = "admin" THEN TRUE
    ELSE permission \in user.permissions

-----------------------------------------------------------------------------
(* tenant.py: TenantHierarchy *)

can_access_bad(requester_tenant_id, requester_type, target_tenant_id, target_type) ==
    IF requester_tenant_id = target_tenant_id THEN TRUE
    ELSE IF requester_type = "root" THEN TRUE
    ELSE IF requester_type = "provider" THEN target_type \in {"provider", "customer", "sub_customer"}
    ELSE IF requester_type = "customer" THEN target_type = "sub_customer"
    ELSE FALSE

can_access(requester_tenant_id, requester_type, target_tenant_id, target_type) ==
    IF requester_tenant_id = target_tenant_id THEN TRUE
    ELSE IF requester_type = "root" THEN TRUE
    ELSE IF requester_type = "provider" THEN target_type \in {"customer", "sub_customer"}
    ELSE IF requester_type = "customer" THEN target_type = "sub_customer"
    ELSE FALSE

-----------------------------------------------------------------------------
(* tenant.py: require_tenant_access *)

hierarchy_get_high(tenant_type) ==
    IF tenant_type = "root" THEN 4
    ELSE IF tenant_type = "provider" THEN 3
    ELSE IF tenant_type = "customer" THEN 2
    ELSE IF tenant_type = "sub_customer" THEN 1
    ELSE 9

\* lines 109-117: hierarchy.get(tenant_type, 0)
hierarchy_get(tenant_type) ==
    IF tenant_type = "root" THEN 4
    ELSE IF tenant_type = "provider" THEN 3
    ELSE IF tenant_type = "customer" THEN 2
    ELSE IF tenant_type = "sub_customer" THEN 1
    ELSE 0

tenant_checker_above(required_level, current_user) ==
    IF ~Truthy(current_user) THEN RaiseHTTP(HTTP_401_UNAUTHORIZED)
    ELSE IF /\ required_level \notin {NONE, ""}
            /\ hierarchy_get(current_user.tenant_type) <= hierarchy_get(required_level)
         THEN RaiseHTTP(HTTP_403_FORBIDDEN)
    ELSE Return(current_user)

\* lines 98-124, body of tenant_checker; "if required_level" is false for
\* None and for the empty string
tenant_checker(required_level, current_user) ==
    IF ~Truthy(current_user) THEN RaiseHTTP(HTTP_401_UNAUTHORIZED)
    ELSE IF /\ required_level \notin {NONE, ""}
            /\ hierarchy_get(current_user.tenant_type) < hierarchy_get(required_level)
         THEN RaiseHTTP(HTTP_403_FORBIDDEN)
    ELSE Return(current_user)

\* await require_tenant_access(required_level)(current_user); the inner
\* function has no default argument, so the checker is always built
require_tenant_access(required_level, current_user) ==
    tenant_checker(required_level, current_user)

\* required_level: the four level names, None (the default), the empty
\* string and names that are not levels
UnknownLevels == {"admin", "partner"}
\* principals for the tenant-level check: None, {} and dictionaries whose
\* tenant_type may be absent or not a level name
TenantUsers ==
    {NoUser} \cup
    {MkDict(k, "viewer", {}, PyText(TenantNames[1]), tt, FALSE) :
        k \in SUBSET {"id", "tenant_type"}, tt \in TypeVals}

-----------------------------------------------------------------------------
(* Access checks applied to enumerated inputs *)

NoArg == [user |-> NoUser, permission |-> "", permissions |-> <<>>,
          role |-> "", required_level |-> "<no-call>",
          resource_tenant_id |-> PyNone,
          requester_tenant_id |-> PyNone, requester_type |-> NONE,
          target_tenant_id |-> PyNone, target_type |-> NONE]

CallRequirePermission ==
    /\ op = ""
    /\ \E p \in PermSample, u \in PermissionUsers :
        /\ op' = "require_permission"
        /\ arg' = [NoArg EXCEPT !.user = u, !.permission = p]
        /\ out' = require_permission(p, u)
    /\ UNCHANGED <<tenantVars, inventoryVars, batchVars, apiVars>>

CallRequireAnyPermission ==
    /\ op = ""
    /\ \E ps \in PermLists, u \in PermissionUsers :
        /\ op' = "require_any_permission"
        /\ arg' = [NoArg EXCEPT !.user = u, !.permissions = ps]
        /\ out' = require_any_permission(ps, u)
    /\ UNCHANGED <<tenantVars, inventoryVars, batchVars, apiVars>>

CallRequireAllPermissions ==
    /\ op = ""
    /\ \E ps \in PermLists, u \in PermissionUsers :
        /\ op' = "require_all_permissions"
        /\ arg' = [NoArg EXCEPT !.user = u, !.permissions = ps]
        /\ out' = require_all_permissions(ps, u)
    /\ UNCHANGED <<tenantVars, inventoryVars, batchVars, apiVars>>

CallCanAccessResource ==
    /\ op = ""
    /\ \E u \in ResourceUsers, t \in ({PyText(n) : n \in TenantName} \cup {PyText("None")}), p \in PermSample :
        /\ op' = "can_access_resource"
        /\ arg' = [NoArg EXCEPT !.user = u, !.resource_tenant_id = t, !.permission = p]
        /\ out' = ReturnBool(can_access_resource(u, t, p))
    /\ UNCHANGED <<tenantVars, inventoryVars, batchVars, apiVars>>

CallCanAccess ==
    /\ op = ""
    /\ \E ri \in UserTenantIds, rt \in (TypeVals \cup {NONE}), ti \in UserTenantIds, tt \in (TypeVals \cup {NONE}) :
        /\ op' = "can_access"
        /\ arg' = [NoArg EXCEPT !.requester_tenant_id = ri, !.requester_type = rt,
                                !.target_tenant_id = ti, !.target_type = tt]
        /\ out' = ReturnBool(can_access(ri, rt, ti, tt))
    /\ UNCHANGED <<tenantVars, inventoryVars, batchVars, apiVars>>

CallRequireTenantAccess ==
    /\ op = ""
    /\ \E l \in (TenantTypes \cup {NONE, ""} \cup UnknownLevels), u \in TenantUsers :
        /\ op' = "require_tenant_access"
        /\ arg' = [NoArg EXCEPT !.user = u, !.required_level = l]
        /\ out' = require_tenant_access(l, u)
    /\ UNCHANGED <<tenantVars, inventoryVars, batchVars, apiVars>>

CallDefaultRolePermissions ==
    /\ op = ""
    /\ \E r \in {"admin", "analyst", "viewer", "guest"} :
        /\ op' = "DEFAULT_ROLE_PERMISSIONS.get"
        /\ arg' = [NoArg EXCEPT !.role = r]
        /\ out' = ReturnList(DEFAULT_ROLE_PERMISSIONS(r))
    /\ UNCHANGED <<tenantVars, inventoryVars, batchVars, apiVars>>

InitAccess ==
    /\ op = ""
    /\ arg = NoArg
    /\ out = NoOutcome

-----------------------------------------------------------------------------
(* tenant.py: TenantContext, one dictionary held by the class *)

\* _context = {}: every .get() on it returns None
EmptyContext == [tenant_id |-> NONE, tenant_type |-> NONE]

TenantContext_set_id_only(tenant_id, tenant_type) == [tenant_id |-> tenant_id, tenant_type |-> NONE]

TenantContext_set(tenant_id, tenant_type) == [tenant_id |-> tenant_id, tenant_type |-> tenant_type]
TenantContext_get(c) == c.tenant_id
TenantContext_get_type(c) == c.tenant_type
TenantContext_clear == EmptyContext
TenantContext_is_super_admin(c) == c.tenant_type = "root"

-----------------------------------------------------------------------------
(* main.py: tenant_context_middleware, one coroutine per request *)

Requests == 1..NumRequests

\* What the Authorization header of a request decodes to: no Bearer header,
\* a token that decode_access_token rejects (None or an exception), or a
\* payload whose tenant_id / tenant_type keys may be absent (NONE).
NoToken == [kind |-> "none", tenant_id |-> NONE, tenant_type |-> NONE]
Payloads == [kind : {"payload"}, tenant_id : TenantName \cup {NONE},
             tenant_type : {"root", NONE}]

\* payload.get("tenant_id", "default") / payload.get("tenant_type", "customer")
PayloadTenantId(tok) == IF tok.tenant_id = NONE THEN "default" ELSE tok.tenant_id
PayloadTenantType(tok) == IF tok.tenant_type = NONE THEN "customer" ELSE tok.tenant_type

\* the calls made on the context: none yet, set(tenant_id, tenant_type), clear()
NoCall == [call |-> "", tenant_id |-> NONE, tenant_type |-> NONE]
SetCall(tenant_id, tenant_type) == [call |-> "set", tenant_id |-> tenant_id, tenant_type |-> tenant_type]
ClearCall == [call |-> "clear", tenant_id |-> NONE, tenant_type |-> NONE]

NoRead == [n |-> 0, tenant_id |-> NONE, tenant_type |-> NONE, super |-> FALSE]

\* lines 34-45: the header is examined and, for a decoded payload, the
\* context is set; the coroutine then awaits call_next
MwEnter(r) ==
    /\ rpc[r] = "new"
    /\ \E tok \in ({NoToken, [kind |-> "invalid", tenant_id |-> NONE, tenant_type |-> NONE]} \cup Payloads) :
        /\ rtok' = [rtok EXCEPT ![r] = tok]
        /\ ctx' = IF tok.kind = "payload"
                  THEN TenantContext_set(PayloadTenantId(tok), PayloadTenantType(tok))
                  ELSE ctx
        /\ lastw' = IF tok.kind = "payload"
                    THEN SetCall(PayloadTenantId(tok), PayloadTenantType(tok))
                    ELSE lastw
    /\ rpc' = [rpc EXCEPT ![r] = "handling"]
    /\ UNCHANGED <<rread, accessVars, inventoryVars, batchVars, apiVars>>

\* downstream code of the request reads TenantContext.get(), get_type()
\* and is_super_admin()
HandlerRead(r) ==
    /\ rpc[r] = "handling"
    /\ rread[r].n < MaxReads
    /\ rread' = [rread EXCEPT ![r] =
                    [n |-> rread[r].n + 1,
                     tenant_id |-> TenantContext_get(ctx),
                     tenant_type |-> TenantContext_get_type(ctx),
                     super |-> TenantContext_is_super_admin(ctx)]]
    /\ UNCHANGED <<ctx, rpc, rtok, lastw, accessVars, inventoryVars, batchVars, apiVars>>

\* call_next returns a response (an HTTPException of the handler is turned
\* into a response below the middleware)
HandlerReturn(r) ==
    /\ rpc[r] = "handling"
    /\ rpc' = [rpc EXCEPT ![r] = "returned"]
    /\ UNCHANGED <<ctx, rtok, rread, lastw, accessVars, inventoryVars, batchVars, apiVars>>

\* line 48-49: TenantContext.clear(); return response
MwClear(r) ==
    /\ rpc[r] = "returned"
    /\ ctx' = TenantContext_clear
    /\ lastw' = ClearCall
    /\ rpc' = [rpc EXCEPT ![r] = "done"]
    /\ UNCHANGED <<rtok, rread, accessVars, inventoryVars, batchVars, apiVars>>

\* line 47: await call_next(request) raises the handler's error; lines
\* 48-49 are not executed and the error leaves the middleware
HandlerRaise(r) ==
    /\ rpc[r] = "handling"
    /\ rpc' = [rpc EXCEPT ![r] = "failed"]
    /\ UNCHANGED <<ctx, rtok, rread, lastw, accessVars, inventoryVars, batchVars, apiVars>>

InitTenant ==
    /\ ctx = EmptyContext
    /\ rpc = [r \in Requests |-> "new"]
    /\ rtok = [r \in Requests |-> NoToken]
    /\ rread = [r \in Requests |-> NoRead]
    /\ lastw = NoCall

-----------------------------------------------------------------------------
(* services/inventory.py: values *)

MaxContent == 4      \* longest backend content, in tokens

\* class Decision
Decisions == {"approved", "rejected", "pending", "flag"}

\* AIService.PROVIDERS: the providers that have an api_url
PROVIDERS == {"openai", "anthropic", "ollama", "groq", "deepseek"}
\* config.provider.lower() of a configured service; "custom" is a provider
\* name outside PROVIDERS (the generic OpenAI-compatible branch)
ProviderNames == PROVIDERS \cup {"custom"}
\* ai_config = None
NoAI == "<no-ai>"

\* EquipmentData: the fields process_item computes with.  typed = FALSE is a
\* record built without validation whose text field is not a str, so that
\* str.replace in _build_prompt raises TypeError.
Equipments == [tags : {<<>>, <<"a", "b">>, <<"a", "a">>}, asset_type : {"server"}, typed : {TRUE}]
              \cup [tags : {<<>>}, asset_type : {NONE}, typed : {TRUE, FALSE}]

\* A value found under a key of the parsed object: ty is its JSON type
\* ("missing" when the key is absent), n its number, s its text or list.
Missing == [ty |-> "missing", n |-> 0, s |-> <<>>]
JInt(i) == [ty |-> "int", n |-> i, s |-> <<>>]
JStr(t) == [ty |-> "str", n |-> 0, s |-> <<t>>]
JList(l) == [ty |-> "list", n |-> 0, s |-> l]

\* confidence is kept in tenths: 9 is 0.9
DecisionValues == {JStr(d) : d \in Decisions} \cup {JStr("maybe"), Missing}

NoFields == [decision |-> Missing, confidence |-> Missing, suggested_tags |-> Missing,
             suggested_risk_score |-> Missing, suggested_asset_type |-> Missing]

\* objects whose fields are well typed, and objects with one ill-typed field
GoodFields == [decision : DecisionValues, confidence : {JInt(9), Missing},
               suggested_tags : {JList(<<"b", "c">>), Missing},
               suggested_risk_score : {JInt(50), JInt(150), Missing},
               suggested_asset_type : {JStr("workstation"), Missing}]
BaseFields == [decision |-> JStr("approved"), confidence |-> JInt(9),
               suggested_tags |-> JList(<<"b", "c">>), suggested_risk_score |-> JInt(50),
               suggested_asset_type |-> JStr("workstation")]
IllTypedFields == {[BaseFields EXCEPT !.confidence = JStr("high")],
                   [BaseFields EXCEPT !.suggested_tags = JStr("b")],
                   [BaseFields EXCEPT !.suggested_risk_score = JStr("high")]}
\* objects that hold at most a decision
DecisionFields == {[NoFields EXCEPT !.decision = d] : d \in DecisionValues}

\* The content string, as tokens: "{" and "}" are the braces, "x" is a run
\* of brace-free prose.  The text "{" "}" is the JSON object whose members
\* are the response's fields; every other text is not JSON.
Contents == UNION {[1..n -> ({"{", "}", "x"})] : n \in 0..MaxContent}

\* 0-based str.find / str.rfind, -1 when absent
PyFind(s, ch) ==
    IF \E i \in DOMAIN s : s[i] = ch
    THEN (CHOOSE i \in DOMAIN s : s[i] = ch /\ \A j \in DOMAIN s : s[j] = ch => i <= j) - 1
    ELSE -1
PyRFind(s, ch) ==
    IF \E i \in DOMAIN s : s[i] = ch
    THEN (CHOOSE i \in DOMAIN s : s[i] = ch /\ \A j \in DOMAIN s : s[j] = ch => i >= j) - 1
    ELSE -1
\* s[a:b] with Python's treatment of negative and out-of-range indices
PyIndex(s, a) == IF a < 0 THEN (IF a + Len(s) < 0 THEN 0 ELSE a + Len(s))
                 ELSE (IF a > Len(s) THEN Len(s) ELSE a)
PySlice(s, a, b) == SubSeq(s, PyIndex(s, a) + 1, PyIndex(s, b))

\* lines 280-282
ExtractJson(content) == PySlice(content, PyFind(content, "{"), PyRFind(content, "}") + 1)
\* json.loads succeeds on the extracted text
JsonLoads(text) == text = <<"{", "}">>

\* What the backend does when called.  transport: the request completes or
\* httpx raises; status: the HTTP status; body: what response.json() finds
\* ("choices" = {"choices":[{"message":{"content":..}}]}, "response" =
\* {"response":..}, "completion" = {"completion":..}, "error" = another
\* object, "list" = a JSON array, "text" = not JSON); content_str = FALSE
\* is a null content.
Resp(t, st, b, cs, c, f) ==
    [transport |-> t, status |-> st, body |-> b, content_str |-> cs, content |-> c, fields |-> f]
JsonContents == {c \in Contents : JsonLoads(ExtractJson(c))}
BackendResponses ==
    {Resp(t, 200, "text", TRUE, <<>>, NoFields) : t \in {"ConnectError", "TimeoutException"}}
    \cup {Resp("ok", st, "text", TRUE, <<>>, NoFields) : st \in {200, 301, 404, 500} \ {200}}
    \cup {Resp("ok", 200, b, TRUE, <<>>, NoFields) : b \in {"choices", "response", "completion", "error", "list", "text"} \ {"choices", "response"}}
    \cup {Resp("ok", 200, b, FALSE, <<>>, NoFields) : b \in {"choices", "response"}}
    \cup {Resp("ok", 200, b, TRUE, c, NoFields) : b \in {"choices", "response"}, c \in Contents \ JsonContents}
    \cup {Resp("ok", 200, b, TRUE, c, f) : b \in {"choices", "response"}, c \in JsonContents, f \in DecisionFields}
    \cup {Resp("ok", 200, b, TRUE, <<"{", "}">>, f) : b \in {"choices", "response"}, f \in (GoodFields \cup IllTypedFields)}
    \cup {Resp("ok", 200, "completion", TRUE, <<"{", "}">>, f) : f \in DecisionFields}
NoResponse == [transport |-> "", status |-> 0, body |-> "", content_str |-> TRUE,
               content |-> <<>>, fields |-> NoFields]

-----------------------------------------------------------------------------
(* services/inventory.py: AIService.process_item *)

\* AIOutput; comments is <<prefix, text>>, confidence is in tenths
AIOutput(d, c, conf, tags, risk, asset) ==
    [decision |-> d, comments |-> c, confidence |-> conf, suggested_tags |-> tags,
     suggested_risk_score |-> risk, suggested_asset_type |-> asset]
NoOutput == AIOutput("", <<"", "">>, 0, <<>>, 0, NONE)

\* lines 295-301: the except branch
FailureOutput(reason) ==
    AIOutput("pending", <<"AI processing failed: ", reason>>, 0, <<>>, 0, NONE)

\* line 229: _build_prompt; "" when it returns
PromptError(data) == IF data.typed THEN "" ELSE "TypeError"

\* lines 264-271: client.post, raise_for_status, response.json(); "" when
\* result is obtained
CallError(provider, r) ==
    IF provider \notin PROVIDERS THEN "UnsupportedProtocol"
    ELSE IF r.transport # "ok" THEN r.transport
    ELSE IF ~(r.status >= 200 /\ r.status <= 299) THEN "HTTPStatusError"
    ELSE IF r.body = "text" THEN "JSONDecodeError"
    ELSE ""

\* lines 274-277: the content of the provider's envelope; "" when found
ContentError(provider, r) ==
    IF provider = "ollama"
    THEN (IF r.body = "list" THEN "AttributeError" ELSE "")
    ELSE (IF r.body = "list" THEN "TypeError"
          ELSE IF r.body # "choices" THEN "KeyError" ELSE "")
ContentOf(provider, r) ==
    IF provider = "ollama"
    THEN (IF r.body = "response" THEN r.content ELSE <<>>)
    ELSE r.content
ContentIsStr(provider, r) ==
    IF provider = "ollama" /\ r.body # "response" THEN TRUE ELSE r.content_str

GetDecision(f) == IF f.decision.ty = "missing" THEN "pending" ELSE f.decision.s[1]

\* lines 286-293: the AIOutput constructor and its argument conversions
OutputError(f) ==
    IF GetDecision(f) \notin Decisions THEN "ValueError"
    ELSE IF f.confidence.ty = "str" THEN "ValueError"
    ELSE IF f.suggested_risk_score.ty = "str" THEN "ValueError"
    ELSE IF f.suggested_tags.ty \notin {"list", "missing"} THEN "ValidationError"
    ELSE ""
ParsedOutput(f) ==
    AIOutput(GetDecision(f),
             <<"", "model">>,
             IF f.confidence.ty = "missing" THEN 5 ELSE f.confidence.n,
             IF f.suggested_tags.ty = "missing" THEN <<>> ELSE f.suggested_tags.s,
             IF f.suggested_risk_score.ty = "missing" THEN 0 ELSE f.suggested_risk_score.n,
             IF f.suggested_asset_type.ty = "missing" THEN NONE ELSE f.suggested_asset_type.s[1])

\* lines 274-293: "" when an AIOutput is built from the response
ParseError(provider, r) ==
    IF ContentError(provider, r) # "" THEN ContentError(provider, r)
    ELSE IF ~ContentIsStr(provider, r) THEN "AttributeError"
    ELSE IF ~JsonLoads(ExtractJson(ContentOf(provider, r))) THEN "JSONDecodeError"
    ELSE OutputError(r.fields)

\* "except Exception": every error raised in the try block is caught
CaughtNarrow(e) == e \in {"ConnectError", "TimeoutException", "HTTPStatusError"}

Caught(e) == TRUE

-----------------------------------------------------------------------------
(* services/inventory.py: InventoryService.process_item *)

Range(f) == {f[i] : i \in DOMAIN f}

StatusOfLax(decision) ==
    IF decision = "rejected" THEN "rejected" ELSE "approved"

\* lines 348-355: map the AI decision to a status
StatusOf(decision) ==
    IF decision = "approved" THEN "approved"
    ELSE IF decision = "rejected" THEN "rejected"
    ELSE IF decision = "flag" THEN "pending"
    ELSE "pending"

MkItem(tenant, asset, tags, risk, status, comments, by) ==
    [tenant_id |-> tenant, asset_type |-> asset, tags |-> tags, risk_score |-> risk,
     status |-> status, inventory_comments |-> comments, processed_by |-> by]
NoItem == MkItem("", NONE, <<>>, 0, "", <<"", "">>, "")

\* lines 359 and 365: the tags list before duplicates are removed
MergedTags(service, equipment, ai_result) ==
    IF service.provider # NoAI
    THEN equipment.tags \o ai_result.suggested_tags
    ELSE equipment.tags

ListOfSetKeepDup(tags) == {tags}

\* line 386, list(set(tags)): the lists that hold every element of tags
\* once; the iteration order of a set of str is not fixed by the language
\* (it changes with the hash seed of the process)
ListOfSet(tags) ==
    {l \in [1..Cardinality(Range(tags)) -> Range(tags)] : Range(l) = Range(tags)}

BuildItemPending(service, equipment, ai_result, tag_list) ==
    IF service.provider # NoAI
    THEN MkItem(service.tenant_id,
                IF ai_result.suggested_asset_type # NONE
                    THEN ai_result.suggested_asset_type ELSE equipment.asset_type,
                tag_list,
                ai_result.suggested_risk_score,
                StatusOf(ai_result.decision),
                ai_result.comments,
                "ai")
    ELSE MkItem(service.tenant_id, equipment.asset_type, tag_list, 0,
                "pending", <<"", "Auto-approved: No AI configuration">>, "rule")

\* lines 344-396: the item dictionary; tag_list is what list(set(tags)) gave
BuildItem(service, equipment, ai_result, tag_list) ==
    IF service.provider # NoAI
    THEN MkItem(service.tenant_id,
                IF ai_result.suggested_asset_type # NONE
                    THEN ai_result.suggested_asset_type ELSE equipment.asset_type,
                tag_list,
                ai_result.suggested_risk_score,
                StatusOf(ai_result.decision),
                ai_result.comments,
                "ai")
    ELSE MkItem(service.tenant_id, equipment.asset_type, tag_list, 0,
                "approved", <<"", "Auto-approved: No AI configuration">>, "rule")

\* InventoryService(db, tenant_id, ai_config) and process_item(equipment)
Submit ==
    /\ pc = "IDLE"
    /\ \E t \in TenantName, p \in ProviderNames \cup {NoAI}, e \in Equipments :
        /\ svc' = [tenant_id |-> t, provider |-> p]
        /\ eq' = e
    /\ pc' = "START"
    /\ UNCHANGED <<resp, ai_out, item, calls, stage, manual, accessVars, tenantVars, batchVars, apiVars>>

\* lines 361-396 with self.ai_service = None
AutoApprove ==
    /\ pc = "START"
    /\ svc.provider = NoAI
    /\ \E tag_list \in ListOfSet(MergedTags(svc, eq, NoOutput)) :
        item' = BuildItem(svc, eq, NoOutput, tag_list)
    /\ pc' = "RETURNED"
    /\ UNCHANGED <<svc, eq, resp, ai_out, calls, stage, manual, accessVars, tenantVars, batchVars, apiVars>>

\* AIService.process_item line 229
BuildPrompt ==
    /\ pc = "START"
    /\ svc.provider # NoAI
    /\ IF PromptError(eq) = ""
       THEN /\ pc' = "PROMPT_BUILT"
            /\ UNCHANGED <<stage, ai_out>>
       ELSE /\ stage' = "PROMPT_FAILED"
            /\ IF Caught(PromptError(eq))
               THEN pc' = "DONE" /\ ai_out' = FailureOutput(PromptError(eq))
               ELSE pc' = "RAISED" /\ UNCHANGED ai_out
    /\ UNCHANGED <<svc, eq, resp, item, calls, manual, accessVars, tenantVars, batchVars, apiVars>>

CallBackendRetry ==
    /\ pc \in {"PROMPT_BUILT", "CALL_FAILED"}
    /\ \E r \in (IF svc.provider \in PROVIDERS THEN BackendResponses ELSE {NoResponse}) :
        resp' = r
    /\ calls' = calls + 1
    /\ pc' = "BACKEND_CALLED"
    /\ UNCHANGED <<svc, eq, ai_out, item, stage, manual, accessVars, tenantVars, batchVars, apiVars>>

\* lines 231-269: the payload is built and client.post is awaited, once
CallBackend ==
    /\ pc = "PROMPT_BUILT"
    /\ \E r \in (IF svc.provider \in PROVIDERS THEN BackendResponses ELSE {NoResponse}) :
        resp' = r
    /\ calls' = calls + 1
    /\ pc' = "BACKEND_CALLED"
    /\ UNCHANGED <<svc, eq, ai_out, item, stage, manual, accessVars, tenantVars, batchVars, apiVars>>

\* lines 265-293: the call completes, the response is checked and parsed
Receive ==
    /\ pc = "BACKEND_CALLED"
    /\ pc' = IF CallError(svc.provider, resp) # "" THEN "CALL_FAILED"
             ELSE IF ParseError(svc.provider, resp) # "" THEN "PARSE_FAILED"
             ELSE "PARSED_OK"
    /\ stage' = pc'
    /\ UNCHANGED <<svc, eq, resp, ai_out, item, calls, manual, accessVars, tenantVars, batchVars, apiVars>>

\* lines 286-301: the AIOutput is returned, from the parsed object or from
\* the except branch
Finish ==
    /\ pc \in {"PARSED_OK", "PARSE_FAILED", "CALL_FAILED"}
    /\ LET e == IF pc = "CALL_FAILED" THEN CallError(svc.provider, resp)
                ELSE ParseError(svc.provider, resp)
       IN IF pc = "PARSED_OK"
          THEN pc' = "DONE" /\ ai_out' = ParsedOutput(resp.fields)
          ELSE IF Caught(e)
               THEN pc' = "DONE" /\ ai_out' = FailureOutput(e)
               ELSE pc' = "RAISED" /\ UNCHANGED ai_out
    /\ UNCHANGED <<svc, eq, resp, item, calls, stage, manual, accessVars, tenantVars, batchVars, apiVars>>

\* InventoryService.process_item lines 345-410 after the AI result
ReturnItem ==
    /\ pc = "DONE"
    /\ \E tag_list \in ListOfSet(MergedTags(svc, eq, ai_out)) :
        item' = BuildItem(svc, eq, ai_out, tag_list)
    /\ pc' = "RETURNED"
    /\ UNCHANGED <<svc, eq, resp, ai_out, calls, stage, manual, accessVars, tenantVars, batchVars, apiVars>>

\* lines 434-441, update_item: its body is the comment "TODO: Update in
\* database" and the return of {"status": "success"}; the item is left as
\* it was
update_item(it, updates) == it
UpdateResult == "success"

\* comments given to approve_item / reject_item: the default "" or a text
ManualComments == {<<"", "">>, <<"", "checked by hand">>}
NoManual == [call |-> "", comments |-> <<"", "">>, returned |-> ""]

\* lines 443-449
ApproveItem ==
    /\ pc = "RETURNED"
    /\ \E comments \in ManualComments :
        /\ item' = update_item(item, [status |-> "approved",
                                      inventory_comments |-> comments,
                                      processed_by |-> "manual"])
        /\ manual' = [call |-> "approve_item", comments |-> comments, returned |-> UpdateResult]
    /\ pc' = "UPDATED"
    /\ UNCHANGED <<svc, eq, resp, ai_out, calls, stage, accessVars, tenantVars, batchVars, apiVars>>

\* lines 451-457
RejectItem ==
    /\ pc = "RETURNED"
    /\ \E comments \in ManualComments :
        /\ item' = update_item(item, [status |-> "rejected",
                                      inventory_comments |-> comments,
                                      processed_by |-> "manual"])
        /\ manual' = [call |-> "reject_item", comments |-> comments, returned |-> UpdateResult]
    /\ pc' = "UPDATED"
    /\ UNCHANGED <<svc, eq, resp, ai_out, calls, stage, accessVars, tenantVars, batchVars, apiVars>>

InitInventory ==
    /\ svc = [tenant_id |-> "", provider |-> NoAI]
    /\ eq = [tags |-> <<>>, asset_type |-> NONE, typed |-> TRUE]
    /\ pc = "IDLE"
    /\ resp = NoResponse
    /\ ai_out = NoOutput
    /\ item = NoItem
    /\ calls = 0
    /\ stage = ""
    /\ manual = NoManual

-----------------------------------------------------------------------------
(* services/inventory.py: AIService.process_batch *)

MaxBatch == 3        \* longest batch

\* AIService.process_item on one item whose backend call is answered by r:
\* the first error met in the try block, "" when there is none
ItemError(provider, data, r) ==
    IF PromptError(data) # "" THEN PromptError(data)
    ELSE IF CallError(provider, r) # "" THEN CallError(provider, r)
    ELSE ParseError(provider, r)

AIService_process_item_timeout_escapes(provider, data, r) ==
    LET e == ItemError(provider, data, r)
    IN IF e = "" THEN [raised |-> "", output |-> ParsedOutput(r.fields)]
       ELSE IF Caught(e) /\ e # "TimeoutException"
            THEN [raised |-> "", output |-> FailureOutput(e)]
       ELSE [raised |-> e, output |-> NoOutput]

\* lines 224-301: what the coroutine ends with, the AIOutput it returns or
\* the error it lets through
AIService_process_item(provider, data, r) ==
    LET e == ItemError(provider, data, r)
    IN IF e = "" THEN [raised |-> "", output |-> ParsedOutput(r.fields)]
       ELSE IF Caught(e) THEN [raised |-> "", output |-> FailureOutput(e)]
       ELSE [raised |-> e, output |-> NoOutput]

\* what the backend may answer to the call of one item: a timeout, a
\* server error, and answers that carry a decision
BatchResponses ==
    { Resp("TimeoutException", 200, "text", TRUE, <<>>, NoFields),
      Resp("ok", 500, "text", TRUE, <<>>, NoFields),
      Resp("ok", 200, "choices", TRUE, <<"{", "}">>, BaseFields),
      Resp("ok", 200, "choices", TRUE, <<"{", "}">>,
           [BaseFields EXCEPT !.decision = JStr("rejected")]),
      Resp("ok", 200, "response", TRUE, <<"{", "}">>,
           [BaseFields EXCEPT !.decision = JStr("flag")]) }

\* A task made by asyncio.gather for one coroutine.  state: "created",
\* "awaiting" (suspended in client.post), "done" or "raised"; rank: its
\* place in the order in which the tasks ended.
NoTask == [state |-> "created", resp |-> NoResponse, output |-> NoOutput,
           rank |-> 0, exc |-> ""]
Ended(tasks) == {j \in DOMAIN tasks : tasks[j].state \in {"done", "raised"}}

\* the task of item i when its coroutine ends, the backend having answered r
TaskEnd(provider, data, tasks, r) ==
    LET res == AIService_process_item(provider, data, r)
    IN [state |-> IF res.raised = "" THEN "done" ELSE "raised",
        resp |-> r, output |-> res.output,
        rank |-> Cardinality(Ended(tasks)) + 1, exc |-> res.raised]

\* what process_batch / receive_from_n8n returned or raised
BatchReturn(received, processed, results) ==
    [kind |-> "return", exc |-> "", received |-> received, processed |-> processed,
     results |-> results]
BatchRaise(e) ==
    [kind |-> "raise", exc |-> e, received |-> 0, processed |-> 0, results |-> <<>>]
NoBatchReturn ==
    [kind |-> "", exc |-> "", received |-> 0, processed |-> 0, results |-> <<>>]

gather_as_completed(tasks) ==
    [k \in DOMAIN tasks |-> tasks[CHOOSE j \in DOMAIN tasks : tasks[j].rank = k].output]

\* asyncio.gather(*tasks): the results, in the order of the awaitables
gather(tasks) == [i \in DOMAIN tasks |-> tasks[i].output]

\* lines 305-306: one coroutine per item, all handed to asyncio.gather
ProcessBatch ==
    /\ bpc = "IDLE"
    /\ \E p \in {"openai", "ollama"}, n \in 0..MaxBatch :
        \E items \in [1..n -> {e \in Equipments : e.asset_type = NONE}] :
            /\ bsvc' = [tenant_id |-> "", provider |-> p]
            /\ bitems' = items
            /\ btask' = [i \in 1..n |-> NoTask]
    /\ bop' = "process_batch"
    /\ bpc' = "GATHERING"
    /\ UNCHANGED <<bresults, bret, accessVars, tenantVars, inventoryVars, apiVars>>

\* The event loop starts the tasks in the order of their creation; the task
\* of item i runs to the await of client.post, or to its end when the
\* prompt cannot be built.
TaskStart(i) ==
    /\ bop = "process_batch"
    /\ bpc \in {"GATHERING", "RAISED"}
    /\ i \in DOMAIN btask
    /\ btask[i].state = "created"
    /\ \A j \in 1..(i - 1) : btask[j].state # "created"
    /\ btask' = [btask EXCEPT ![i] =
                    IF PromptError(bitems[i]) = ""
                    THEN [NoTask EXCEPT !.state = "awaiting"]
                    ELSE TaskEnd(bsvc.provider, bitems[i], btask, NoResponse)]
    /\ UNCHANGED <<bop, bpc, bsvc, bitems, bresults, bret,
                   accessVars, tenantVars, inventoryVars, apiVars>>

\* The backend answers the call of item i, or the call times out, whatever
\* the state of the other calls; the task of item i runs to its end.
BackendAnswers(i) ==
    /\ bop = "process_batch"
    /\ bpc \in {"GATHERING", "RAISED"}
    /\ i \in DOMAIN btask
    /\ btask[i].state = "awaiting"
    /\ \E r \in BatchResponses :
        btask' = [btask EXCEPT ![i] = TaskEnd(bsvc.provider, bitems[i], btask, r)]
    /\ UNCHANGED <<bop, bpc, bsvc, bitems, bresults, bret,
                   accessVars, tenantVars, inventoryVars, apiVars>>

\* await asyncio.gather(*tasks) resumes: with the list of results when every
\* task is done, with the error of a task as soon as one has raised
GatherResume ==
    /\ bop = "process_batch"
    /\ bpc = "GATHERING"
    /\ \/ \A i \in DOMAIN btask : btask[i].state = "done"
       \/ \E i \in DOMAIN btask : btask[i].state = "raised"
    /\ IF \E i \in DOMAIN btask : btask[i].state = "raised"
       THEN /\ bret' = BatchRaise(btask[CHOOSE i \in DOMAIN btask :
                            /\ btask[i].state = "raised"
                            /\ \A j \in DOMAIN btask :
                                btask[j].state = "raised" => btask[i].rank <= btask[j].rank].exc)
            /\ bpc' = "RAISED"
       ELSE /\ bret' = BatchReturn(Len(bitems), Len(btask), gather(btask))
            /\ bpc' = "RETURNED"
    /\ UNCHANGED <<bop, bsvc, bitems, btask, bresults,
                   accessVars, tenantVars, inventoryVars, apiVars>>

-----------------------------------------------------------------------------
(* services/inventory.py: InventoryService.receive_from_n8n *)

\* One element of the payload: a dictionary that EquipmentData(**item_data)
\* accepts (data is the record it builds) or rejects with ValidationError.
N8nEquipments == {e \in Equipments : e.typed /\ e.tags \in {<<>>, <<"a", "a">>}}
N8nItemData == {[valid |-> TRUE, data |-> e] : e \in N8nEquipments}
               \cup {[valid |-> FALSE, data |-> [tags |-> <<>>, asset_type |-> NONE, typed |-> TRUE]]}
\* the payload: {"items": [...]} or one item dictionary
N8nPayloads ==
    {[shape |-> "items", items |-> s] :
        s \in UNION {[1..n -> N8nItemData] : n \in 0..MaxBatch}}
    \cup {[shape |-> "single", items |-> <<d>>] : d \in N8nItemData}
\* lines 320-325
PayloadItems(payload) == payload.items

\* lines 398-410: the dictionary InventoryService.process_item returns; the
\* elapsed time is kept as 0
ProcessItemResult(it) ==
    [status |-> "success", item |-> it, processing_time_ms |-> 0,
     ai_decision |-> it.status, comments |-> it.inventory_comments]

\* line 336, r.dict() for every r of results: r is the plain dict that
\* process_item returned, and a dict has no attribute "dict"
DictCallError(results) == IF results # <<>> THEN "AttributeError" ELSE ""

\* lines 319-327
ReceiveFromN8n ==
    /\ bpc = "IDLE"
    /\ \E t \in TenantName, p \in {"openai", NoAI}, payload \in N8nPayloads :
        /\ bsvc' = [tenant_id |-> t, provider |-> p]
        /\ bitems' = PayloadItems(payload)
    /\ bresults' = <<>>
    /\ bop' = "receive_from_n8n"
    /\ bpc' = "LOOPING"
    /\ UNCHANGED <<btask, bret, accessVars, tenantVars, inventoryVars, apiVars>>

\* lines 328-331, one turn of the loop: the record is validated, processed
\* (with one backend call when an AI is configured) and its result appended
N8nProcessNext ==
    /\ bop = "receive_from_n8n"
    /\ bpc = "LOOPING"
    /\ Len(bresults) < Len(bitems)
    /\ LET d == bitems[Len(bresults) + 1]
       IN IF ~d.valid
          THEN /\ bret' = BatchRaise("ValidationError")
               /\ bpc' = "RAISED"
               /\ UNCHANGED bresults
          ELSE \E r \in (IF bsvc.provider = NoAI THEN {NoResponse} ELSE BatchResponses) :
                LET res == IF bsvc.provider = NoAI
                           THEN [raised |-> "", output |-> NoOutput]
                           ELSE AIService_process_item(bsvc.provider, d.data, r)
                IN IF res.raised # ""
                   THEN /\ bret' = BatchRaise(res.raised)
                        /\ bpc' = "RAISED"
                        /\ UNCHANGED bresults
                   ELSE /\ \E tag_list \in ListOfSet(MergedTags(bsvc, d.data, res.output)) :
                            bresults' = Append(bresults,
                                ProcessItemResult(BuildItem(bsvc, d.data, res.output, tag_list)))
                        /\ UNCHANGED <<bret, bpc>>
    /\ UNCHANGED <<bop, bsvc, bitems, btask, accessVars, tenantVars, inventoryVars, apiVars>>

\* lines 333-337: the return statement
N8nReturn ==
    /\ bop = "receive_from_n8n"
    /\ bpc = "LOOPING"
    /\ Len(bresults) = Len(bitems)
    /\ IF DictCallError(bresults) # ""
       THEN /\ bret' = BatchRaise(DictCallError(bresults))
            /\ bpc' = "RAISED"
       ELSE /\ bret' = BatchReturn(Len(bitems), Len(bresults), bresults)
            /\ bpc' = "RETURNED"
    /\ UNCHANGED <<bop, bsvc, bitems, btask, bresults, accessVars, tenantVars, inventoryVars, apiVars>>

InitBatch ==
    /\ bop = ""
    /\ bpc = "IDLE"
    /\ bsvc = [tenant_id |-> "", provider |-> NoAI]
    /\ bitems = <<>>
    /\ btask = <<>>
    /\ bresults = <<>>
    /\ bret = NoBatchReturn

-----------------------------------------------------------------------------
(* api/v1/inventory.py and core/security.py: the inventory endpoints *)

MaxApiCalls == 2     \* requests served one after the other

NoRequest == [endpoint |-> "", caller |-> [tenant |-> "", role |-> ""], token |-> "none"]

\* security.py:78-85: the user get_current_user builds for every token that
\* decodes, whoever the caller is; attrs are the attributes an instance of
\* class User has (security.py:28-33)
MockUser == [authenticated |-> TRUE, role |-> "admin", is_active |-> TRUE, attrs |-> {"id", "username", "email", "role", "is_active"}]
NoApiUser == [authenticated |-> FALSE, role |-> NONE, is_active |-> FALSE, attrs |-> {}]

\* The dependencies an endpoint declares with Depends(...): lines 144,
\* 223-224 and 240-241.
EndpointDependencies(endpoint) ==
    IF endpoint = "receive_from_n8n" THEN {"get_current_active_user"}
    ELSE {"get_current_active_user", "get_db"}

\* What the permission check of the endpoint answered: "" when the endpoint
\* declares none, otherwise allow or deny from the outcome of the checker.
AccessDecision(endpoint, permission, user) ==
    IF "require_permission" \notin EndpointDependencies(endpoint) THEN ""
    ELSE IF require_permission(permission,
                MkDict({"id", "role"}, user.role, {}, PyNone, NONE, FALSE)).kind = "return"
         THEN "allow" ELSE "deny"

\* line 157: str(current_user.tenant_id) if hasattr(current_user,
\* 'tenant_id') else "default"
WebhookTenantId(user, caller) ==
    IF "tenant_id" \in user.attrs THEN caller.tenant ELSE "default"

ApiResponse(st, decision) == [status |-> st, decision |-> decision]
NoApiResponse == ApiResponse(0, "")

\* the record of a served request
LogEntry(req, response, decision, items) ==
    [caller |-> req.caller, endpoint |-> req.endpoint, status |-> response.status,
     decision |-> decision, item_tenant_ids |-> [i \in DOMAIN items |-> items[i].tenant_id]]

\* A request arrives.  The principal behind it has a tenant and a role; the
\* Authorization header is absent ("none"), a token jwt.decode rejects or
\* that has no "sub" ("invalid"), or a token that decodes ("valid").
ApiRequest ==
    /\ apc \in {"IDLE", "RESPONDED"}
    /\ Len(alog) < MaxApiCalls
    /\ \E e \in {"receive_from_n8n", "approve_item", "reject_item"}, c \in [tenant : TenantName, role : {"analyst", "viewer"}], t \in {"none", "invalid", "valid"} :
        areq' = [endpoint |-> e, caller |-> c, token |-> t]
    /\ auser' = NoApiUser
    /\ adecision' = ""
    /\ aresp' = NoApiResponse
    /\ aitems' = <<>>
    /\ apc' = "RECEIVED"
    /\ UNCHANGED <<alog, accessVars, tenantVars, inventoryVars, batchVars>>

\* security.py:60-92, Depends(get_current_active_user): 401 without a token
\* that decodes, otherwise the mock user, which is active
Authenticate ==
    /\ apc = "RECEIVED"
    /\ IF areq.token = "valid"
       THEN /\ auser' = MockUser
            /\ apc' = "AUTHENTICATED"
            /\ UNCHANGED <<aresp, alog>>
       ELSE /\ aresp' = ApiResponse(401, "")
            /\ alog' = Append(alog, LogEntry(areq, aresp', adecision, aitems))
            /\ apc' = "RESPONDED"
            /\ UNCHANGED auser
    /\ UNCHANGED <<areq, adecision, aitems, accessVars, tenantVars, inventoryVars, batchVars>>

\* lines 141-181: the webhook handler.  The service is built with the
\* tenant id of line 157 and an openai configuration; every item of the
\* payload goes through InventoryService.process_item (one backend call
\* each), then receive_from_n8n evaluates its return statement.
HandleWebhook ==
    /\ apc = "AUTHENTICATED"
    /\ areq.endpoint = "receive_from_n8n"
    /\ adecision' = AccessDecision(areq.endpoint, "inventory:write", auser)
    /\ IF adecision' = "deny"
       THEN /\ aresp' = ApiResponse(403, "")
            /\ UNCHANGED aitems
       ELSE \E n \in 0..1, e \in N8nEquipments, r \in BatchResponses :
            LET service == [tenant_id |-> WebhookTenantId(auser, areq.caller),
                            provider |-> "openai"]
                output == AIService_process_item(service.provider, e, r).output
            IN \E tag_list \in ListOfSet(MergedTags(service, e, output)) :
                /\ aitems' = [i \in 1..n |-> BuildItem(service, e, output, tag_list)]
                /\ aresp' = IF DictCallError(aitems') # ""
                            THEN ApiResponse(500, "")
                            ELSE ApiResponse(202, "")
    /\ alog' = Append(alog, LogEntry(areq, aresp', adecision', aitems'))
    /\ apc' = "RESPONDED"
    /\ UNCHANGED <<areq, auser, accessVars, tenantVars, inventoryVars, batchVars>>

\* lines 219-234: the handler returns a dictionary that reports the
\* decision; it calls neither the service nor the database
HandleApprove ==
    /\ apc = "AUTHENTICATED"
    /\ areq.endpoint = "approve_item"
    /\ adecision' = AccessDecision(areq.endpoint, "inventory:approve", auser)
    /\ aresp' = IF adecision' = "deny" THEN ApiResponse(403, "")
                ELSE ApiResponse(200, "approved")
    /\ alog' = Append(alog, LogEntry(areq, aresp', adecision', aitems))
    /\ apc' = "RESPONDED"
    /\ UNCHANGED <<areq, auser, aitems, accessVars, tenantVars, inventoryVars, batchVars>>

\* lines 237-252
HandleReject ==
    /\ apc = "AUTHENTICATED"
    /\ areq.endpoint = "reject_item"
    /\ adecision' = AccessDecision(areq.endpoint, "inventory:approve", auser)
    /\ aresp' = IF adecision' = "deny" THEN ApiResponse(403, "")
                ELSE ApiResponse(200, "rejected")
    /\ alog' = Append(alog, LogEntry(areq, aresp', adecision', aitems))
    /\ apc' = "RESPONDED"
    /\ UNCHANGED <<areq, auser, aitems, accessVars, tenantVars, inventoryVars, batchVars>>

InitApi ==
    /\ apc = "IDLE"
    /\ areq = NoRequest
    /\ auser = NoApiUser
    /\ adecision = ""
    /\ aresp = NoApiResponse
    /\ aitems = <<>>
    /\ alog = <<>>

-----------------------------------------------------------------------------
(* Specifications *)

Init == InitAccess /\ InitTenant /\ InitInventory /\ InitBatch /\ InitApi

NextAccess ==
    \/ CallRequirePermission
    \/ CallRequireAnyPermission
    \/ CallRequireAllPermissions
    \/ CallCanAccessResource
    \/ CallCanAccess
    \/ CallRequireTenantAccess
    \/ CallDefaultRolePermissions

NextTenant ==
    \E r \in Requests :
        \/ MwEnter(r)
        \/ HandlerRead(r)
        \/ HandlerReturn(r)
        \/ MwClear(r)
        \/ HandlerRaise(r)

NextInventory ==
    \/ Submit
    \/ AutoApprove
    \/ BuildPrompt
    \/ CallBackend
    \/ Receive
    \/ Finish
    \/ ReturnItem
    \/ ApproveItem
    \/ RejectItem

NextBatch ==
    \/ ProcessBatch
    \/ \E i \in 1..MaxBatch : TaskStart(i)
    \/ \E i \in 1..MaxBatch : BackendAnswers(i)
    \/ GatherResume
    \/ ReceiveFromN8n
    \/ N8nProcessNext
    \/ N8nReturn

NextApi ==
    \/ ApiRequest
    \/ Authenticate
    \/ HandleWebhook
    \/ HandleApprove
    \/ HandleReject

Next == NextAccess \/ NextTenant \/ NextInventory \/ NextBatch \/ NextApi

SpecAccess == Init /\ [][NextAccess]_vars
SpecTenant == Init /\ [][NextTenant]_vars
SpecInventory == Init /\ [][NextInventory]_vars
SpecBatch == Init /\ [][NextBatch]_vars
SpecApi == Init /\ [][NextApi]_vars

\* A coroutine that can run does run, and client.post ends, with an answer
\* or with the error of the timeout (timeout_seconds, line 264).
SpecInventoryFair ==
    /\ SpecInventory
    /\ WF_vars(BuildPrompt)
    /\ WF_vars(CallBackend)
    /\ WF_vars(Receive)
    /\ WF_vars(Finish)
Spec == Init /\ [][Next]_vars

-----------------------------------------------------------------------------
(* Claims about the access checks, under SpecAccess *)

\* Two tenant ids name the same tenant: both name one (neither is None)
\* and they name it by the same text, as a UUID object or as a str.
SameTenant(a, b) == a.ty # "NoneType" /\ b.ty # "NoneType" /\ a.v = b.v

\* C1: the checker built by require_permission(P) raises 401 when no
\* principal is given, otherwise raises 403 unless the role is "admin" or P
\* is among the principal's permissions, and returns the principal it was
\* given in every allowed case.
C1_RequirePermissionContract ==
    op = "require_permission" =>
        IF ~Truthy(arg.user)
        THEN out.kind = "raise" /\ out.status = 401
        ELSE IF arg.user.role = "admin" \/ arg.permission \in arg.user.permissions
        THEN out.kind = "return" /\ out.user = arg.user
        ELSE out.kind = "raise" /\ out.status = 403

\* C2: a principal whose role is "admin" passes require_permission,
\* require_any_permission and require_all_permissions for every required
\* permission or list, whatever its permission set holds.
C2_AdminAlwaysPasses ==
    (/\ op \in {"require_permission", "require_any_permission", "require_all_permissions"}
     /\ Truthy(arg.user)
     /\ arg.user.role = "admin")
    => (out.kind = "return" /\ out.user = arg.user)

C5_HierarchyTable ==
    op = "can_access" =>
        (out.ok <=>
            \/ arg.requester_tenant_id = arg.target_tenant_id
            \/ arg.requester_type = "root"
            \/ arg.requester_type = "provider" /\ arg.target_type \in {"customer", "sub_customer"}
            \/ arg.requester_type = "customer" /\ arg.target_type = "sub_customer")

\* a provider asking for another provider has been refused
C5_Witness ==
    /\ op = "can_access"
    /\ arg.requester_tenant_id # arg.target_tenant_id
    /\ arg.requester_type = "provider"
    /\ arg.target_type = "provider"
    /\ out.ok = FALSE

-----------------------------------------------------------------------------
(* Claims about the tenant context, under SpecTenant *)

\* C6: while two requests that carry different tenants are handled
\* concurrently, every TenantContext read made by a request between its
\* set and its clear returns the tenant that this request set.
C6_RequestReadsOwnTenant ==
    \A r \in Requests : \A q \in Requests \ {r} :
        (/\ rtok[r].kind = "payload" /\ rtok[q].kind = "payload"
         /\ rpc[r] = "handling" /\ rpc[q] # "new"
         /\ PayloadTenantId(rtok[r]) # PayloadTenantId(rtok[q])
         /\ rread[r].n > 0)
        => /\ rread[r].tenant_id = PayloadTenantId(rtok[r])
           /\ rread[r].tenant_type = PayloadTenantType(rtok[r])
           /\ rread[r].super = (PayloadTenantType(rtok[r]) = "root")

\* C7: once the handling of every request that was started has ended, by a
\* response or by an error, the tenant context is unset.
C7_ContextUnsetAfterRequests ==
    (/\ \A r \in Requests : rpc[r] \in {"new", "done", "failed"}
     /\ \E r \in Requests : rpc[r] \in {"done", "failed"})
    => (TenantContext_get(ctx) = NONE /\ TenantContext_get_type(ctx) = NONE)

-----------------------------------------------------------------------------
(* Claims about the inventory pipeline, under SpecInventory *)

\* the text from the first "{" to the last "}" of the content is an object
SpansObject(c) ==
    \E i \in DOMAIN c :
        /\ c[i] = "{" /\ \A j \in 1..(i - 1) : c[j] # "{"
        /\ i < Len(c) /\ c[i + 1] = "}" /\ \A j \in (i + 2)..Len(c) : c[j] # "}"

\* the AI call of the current item failed: prompt building, transport,
\* status, a missing content field, malformed JSON, an unknown decision
\* string or an ill-typed field
BackendFailure ==
    \/ ~eq.typed
    \/ svc.provider \notin PROVIDERS
    \/ resp.transport # "ok"
    \/ resp.status < 200 \/ resp.status > 299
    \/ resp.body # (IF svc.provider = "ollama" THEN "response" ELSE "choices")
    \/ ~resp.content_str
    \/ ~SpansObject(resp.content)
    \/ resp.fields.decision = JStr("maybe")
    \/ resp.fields.confidence.ty = "str"
    \/ resp.fields.suggested_risk_score.ty = "str"
    \/ resp.fields.suggested_tags.ty = "str"

\* C8: AIService.process_item never raises; on every failure it returns
\* decision pending, confidence 0.0 and comments carrying the reason, and
\* the decision it returns is always one of the four.
C8_NeverRaisesPendingOnFailure ==
    /\ pc # "RAISED"
    /\ (pc \in {"DONE", "RETURNED"} /\ svc.provider # NoAI) =>
        /\ ai_out.decision \in Decisions
        /\ BackendFailure =>
            /\ ai_out.decision = "pending"
            /\ ai_out.confidence = 0
            /\ ai_out.comments[1] = "AI processing failed: "
            /\ ai_out.comments[2] # ""

\* an unknown decision string has been turned into a pending output
C8_Witness ==
    /\ pc = "DONE"
    /\ resp.transport = "ok" /\ resp.status = 200
    /\ resp.fields.decision = JStr("maybe")
    /\ ai_out.decision = "pending"
    /\ ai_out.comments = <<"AI processing failed: ", "ValueError">>

\* C9: with an AI pipeline configured, a failed AI call yields an item of
\* status "pending", and an item has status "approved" only if the backend
\* returned a successfully parsed decision "approved".
C9_NoApprovalOnFailure ==
    (pc = "RETURNED" /\ svc.provider # NoAI) =>
        /\ BackendFailure => item.status = "pending"
        /\ item.status = "approved" =>
            (~BackendFailure /\ resp.fields.decision = JStr("approved"))

\* the item of a timed-out call has been returned pending
C9_Witness ==
    /\ pc = "RETURNED"
    /\ svc.provider # NoAI
    /\ resp.transport = "TimeoutException"
    /\ item.status = "pending"
    /\ item.processed_by = "ai"

\* C10: without an AI configuration every processed item is auto-approved:
\* status "approved", processed_by "rule", comments "Auto-approved: No AI
\* configuration", risk_score 0, and no backend call is made.
C10_AutoApproveWithoutAI ==
    (pc = "RETURNED" /\ svc.provider = NoAI) =>
        /\ item.status = "approved"
        /\ item.processed_by = "rule"
        /\ item.inventory_comments = <<"", "Auto-approved: No AI configuration">>
        /\ item.risk_score = 0
        /\ calls = 0
        /\ resp = NoResponse

\* an item has been returned by a service that has no AI
C10_Witness ==
    /\ pc = "RETURNED"
    /\ svc.provider = NoAI
    /\ item.tenant_id \in TenantName
    /\ item.status = "approved"

-----------------------------------------------------------------------------
(* Further claims about the permission checkers, under SpecAccess *)

\* C11: for an authenticated non-admin principal and any list of required
\* permissions, the empty list included, the checker built by
\* require_any_permission returns the principal exactly when one listed
\* permission is among its permissions and raises 403 otherwise; it raises
\* 401 when no principal is given.
C11_AnyPermissionContract ==
    op = "require_any_permission" =>
        IF arg.user.isNone
        THEN out.kind = "raise" /\ out.status = 401
        ELSE (Truthy(arg.user) /\ arg.user.role # "admin") =>
            IF \E i \in DOMAIN arg.permissions : arg.permissions[i] \in arg.user.permissions
            THEN out.kind = "return" /\ out.user = arg.user
            ELSE out.kind = "raise" /\ out.status = 403

\* C12: for an authenticated non-admin principal and any list of required
\* permissions, the empty list included, the checker built by
\* require_all_permissions returns the principal exactly when every listed
\* permission is among its permissions and raises 403 when one is missing;
\* it raises 401 when no principal is given.
C12_AllPermissionsContract ==
    op = "require_all_permissions" =>
        IF arg.user.isNone
        THEN out.kind = "raise" /\ out.status = 401
        ELSE (Truthy(arg.user) /\ arg.user.role # "admin") =>
            IF \A i \in DOMAIN arg.permissions : arg.permissions[i] \in arg.user.permissions
            THEN out.kind = "return" /\ out.user = arg.user
            ELSE out.kind = "raise" /\ out.status = 403

\* the permissions of the catalog whose action is write, delete or approve
MutatingPermissions ==
    { "alerts:write", "alerts:delete", "cases:write", "cases:delete",
      "assets:write", "assets:delete", "sensors:write", "sensors:delete",
      "inventory:write", "inventory:delete", "inventory:approve",
      "playbooks:write", "users:write", "roles:write", "settings:write",
      "integrations:write", "webhooks:write", "api_keys:write" }

\* C13: a principal of role "viewer", holding permissions of the viewer
\* role, is refused with 403 by every check that requires a permission
\* whose action is write, delete or approve.
C13_ViewerFailsMutatingChecks ==
    (/\ op = "require_permission"
     /\ Truthy(arg.user)
     /\ arg.user.role = "viewer"
     /\ arg.user.permissions \subseteq ViewerPermissions
     /\ arg.permission \in MutatingPermissions)
    => (out.kind = "raise" /\ out.status = 403)

-----------------------------------------------------------------------------
(* Claims about batches, under SpecBatch *)

\* C14: process_batch on N items returns exactly N results and result i is
\* the outcome of input item i, whatever the order in which the N backend
\* calls complete, the fully reversed order included.
C14_BatchKeepsInputOrder ==
    (bop = "process_batch" /\ bpc # "GATHERING") =>
        /\ bret.kind = "return"
        /\ Len(bret.results) = Len(bitems)
        /\ \A i \in DOMAIN bitems :
            /\ bret.results[i] = btask[i].output
            /\ bret.results[i] =
                   AIService_process_item(bsvc.provider, bitems[i], btask[i].resp).output

\* a batch whose calls completed in the fully reversed order has returned,
\* its first and last results being different
C14_Witness ==
    /\ bop = "process_batch"
    /\ bpc = "RETURNED"
    /\ Len(bitems) >= 2
    /\ \A i \in DOMAIN btask : btask[i].rank = Len(bitems) + 1 - i
    /\ bret.results[1].decision = "approved"
    /\ bret.results[Len(bitems)].decision = "rejected"

\* the backend call of item i timed out or failed
CallFailed(i) ==
    \/ btask[i].resp.transport # "ok"
    \/ btask[i].resp.status < 200 \/ btask[i].resp.status > 299

\* C15: in a batch, a timeout or failure of the backend call of one item
\* marks that item pending and nothing else: no task is cancelled or ends
\* in an error, the batch returns a result for every item, and the result
\* of an item whose own call was answered is the one parsed from its own
\* answer.
C15_FailureStaysWithItsItem ==
    bop = "process_batch" =>
        /\ bpc # "RAISED"
        /\ \A i \in DOMAIN btask : btask[i].state \in {"created", "awaiting", "done"}
        /\ bpc = "RETURNED" =>
            /\ Len(bret.results) = Len(bitems)
            /\ \A i \in DOMAIN bitems :
                /\ CallFailed(i) =>
                    /\ bret.results[i].decision = "pending"
                    /\ bret.results[i].comments[1] = "AI processing failed: "
                /\ ItemError(bsvc.provider, bitems[i], btask[i].resp) = "" =>
                    bret.results[i] = ParsedOutput(btask[i].resp.fields)

\* a batch has returned in which the call of one item timed out first and a
\* sibling, answered later, kept its approved result
C15_Witness ==
    /\ bop = "process_batch"
    /\ bpc = "RETURNED"
    /\ \E i \in DOMAIN btask : \E j \in DOMAIN btask :
        /\ i # j
        /\ btask[i].resp.transport = "TimeoutException"
        /\ btask[i].rank < btask[j].rank
        /\ bret.results[i].decision = "pending"
        /\ bret.results[j].decision = "approved"

\* C16: receive_from_n8n on a batch of N equipment records returns without
\* raising, reports received = processed = N and returns N per-item results
\* in input order, each with status, item, processing time, AI decision and
\* comments, even when AI calls fail.
C16_ReceiveReturnsEveryItem ==
    (/\ bop = "receive_from_n8n"
     /\ bpc \in {"RETURNED", "RAISED"}
     /\ \A i \in DOMAIN bitems : bitems[i].valid)
    => /\ bret.kind = "return"
       /\ bret.received = Len(bitems)
       /\ bret.processed = Len(bitems)
       /\ Len(bret.results) = Len(bitems)
       /\ \A i \in DOMAIN bitems :
            /\ bret.results[i].status = "success"
            /\ bret.results[i].item.tenant_id = bsvc.tenant_id
            /\ bret.results[i].item.asset_type = bitems[i].data.asset_type
            /\ bret.results[i].ai_decision = bret.results[i].item.status

-----------------------------------------------------------------------------
(* Further claims about the inventory pipeline, under SpecInventory *)

\* C17: with an AI pipeline configured, the status of the item is the image
\* of the AI decision under approved -> "approved", rejected -> "rejected",
\* pending -> "pending", flag -> "pending"; the status of every produced
\* item is one of approved, rejected, pending.
C17_StatusIsImageOfDecision ==
    pc = "RETURNED" =>
        /\ item.status \in {"approved", "rejected", "pending"}
        /\ svc.provider # NoAI =>
            /\ ai_out.decision \in Decisions
            /\ ai_out.decision = "approved" => item.status = "approved"
            /\ ai_out.decision = "rejected" => item.status = "rejected"
            /\ ai_out.decision = "pending" => item.status = "pending"
            /\ ai_out.decision = "flag" => item.status = "pending"

\* the item of a parsed decision "flag" has been returned pending
C17_Witness ==
    /\ pc = "RETURNED"
    /\ svc.provider # NoAI
    /\ stage = "PARSED_OK"
    /\ resp.fields.decision = JStr("flag")
    /\ ai_out.decision = "flag"
    /\ item.status = "pending"

\* a list holds no element twice
NoDuplicate(l) == \A i \in DOMAIN l : \A j \in DOMAIN l : l[i] = l[j] => i = j

\* C18: the tags of a produced item are, as a set, the union of the
\* equipment's tags and the AI-suggested tags (the equipment's tags alone
\* without AI) and the list holds no duplicate; merging the result again
\* with either input gives the same tags.
C18_TagsAreDeduplicatedUnion ==
    pc = "RETURNED" =>
        /\ Range(item.tags) =
              (IF svc.provider # NoAI
               THEN Range(eq.tags) \cup Range(ai_out.suggested_tags)
               ELSE Range(eq.tags))
        /\ NoDuplicate(item.tags)
        /\ \A again \in ListOfSet(item.tags \o eq.tags)
                        \cup ListOfSet(item.tags \o ai_out.suggested_tags)
                        \cup ListOfSet(item.tags \o item.tags) :
            /\ Range(again) = Range(item.tags)
            /\ Len(again) = Len(item.tags)
            /\ NoDuplicate(again)

\* equipment tags a, b merged with suggested tags b, c have given a list of
\* exactly three tags
C18_Witness ==
    /\ pc = "RETURNED"
    /\ svc.provider # NoAI
    /\ eq.tags = <<"a", "b">>
    /\ ai_out.suggested_tags = <<"b", "c">>
    /\ Range(item.tags) = {"a", "b", "c"}
    /\ Len(item.tags) = 3

\* C19: after approve_item(id, comments), resp. reject_item, the status of
\* the item is "approved", resp. "rejected", its comments are the given
\* comments and processed_by is "manual", whatever the item held before.
C19_ManualDecisionOverwrites ==
    pc = "UPDATED" =>
        /\ item.status = (IF manual.call = "approve_item" THEN "approved" ELSE "rejected")
        /\ item.inventory_comments = manual.comments
        /\ item.processed_by = "manual"

-----------------------------------------------------------------------------
(* Further claims about the tenant context, under SpecTenant *)

\* C20: TenantContext is one overwritable cell: after set(id, type), until
\* the next set or clear, get() is id, get_type() is type and
\* is_super_admin() is true exactly when type is "root", the last set
\* winning over earlier ones; after clear(), and before any set, get() and
\* get_type() are None and is_super_admin() is false.
C20_ContextIsOverwritableCell ==
    /\ lastw.call = "set" =>
        /\ TenantContext_get(ctx) = lastw.tenant_id
        /\ TenantContext_get_type(ctx) = lastw.tenant_type
        /\ TenantContext_is_super_admin(ctx) <=> (lastw.tenant_type = "root")
    /\ lastw.call \in {"clear", ""} =>
        /\ TenantContext_get(ctx) = NONE
        /\ TenantContext_get_type(ctx) = NONE
        /\ ~TenantContext_is_super_admin(ctx)
    /\ \A r \in Requests :
        (rpc[r] = "handling" /\ rread[r].n > 0) =>
            (rread[r].super <=> (rread[r].tenant_type = "root"))

\* a set of a root tenant has been overwritten by the set of a customer
\* tenant, and the cell holds the customer tenant
C20_Witness ==
    /\ \E r \in Requests : \E q \in Requests \ {r} :
        /\ rpc[r] = "handling" /\ rpc[q] = "handling"
        /\ rtok[r].kind = "payload" /\ rtok[q].kind = "payload"
        /\ PayloadTenantType(rtok[r]) = "root"
        /\ PayloadTenantType(rtok[q]) = "customer"
        /\ PayloadTenantId(rtok[r]) # PayloadTenantId(rtok[q])
        /\ lastw = SetCall(PayloadTenantId(rtok[q]), "customer")
    /\ TenantContext_get(ctx) = lastw.tenant_id
    /\ TenantContext_get_type(ctx) = "customer"
    /\ ~TenantContext_is_super_admin(ctx)

-----------------------------------------------------------------------------
(* Claims about tenant levels and role defaults, under SpecAccess *)

\* the rank of a tenant type: root 4, provider 3, customer 2,
\* sub_customer 1; a type that is missing or not a level name has none (0)
Rank(t) ==
    IF t = "root" THEN 4 ELSE IF t = "provider" THEN 3
    ELSE IF t = "customer" THEN 2 ELSE IF t = "sub_customer" THEN 1 ELSE 0

\* C21: for a known level L the checker built by require_tenant_access(L)
\* raises 401 when no principal is given, 403 when the rank of the
\* principal's tenant type is below the rank of L, and otherwise returns
\* the principal; with no level required every authenticated principal is
\* returned.
C21_TenantLevelContract ==
    (op = "require_tenant_access" /\ arg.required_level \in TenantTypes \cup {NONE}) =>
        IF ~Truthy(arg.user)
        THEN out.kind = "raise" /\ out.status = 401
        ELSE IF arg.required_level # NONE
                /\ Rank(arg.user.tenant_type) < Rank(arg.required_level)
        THEN out.kind = "raise" /\ out.status = 403
        ELSE out.kind = "return" /\ out.user = arg.user

\* a customer has been refused at level provider
C21_Witness ==
    /\ op = "require_tenant_access"
    /\ arg.required_level = "provider"
    /\ arg.user.tenant_type = "customer"
    /\ out.kind = "raise" /\ out.status = 403

\* C22: require_tenant_access('sub_customer') admits every authenticated
\* principal, whatever tenant_type value the principal carries.
C22_SubCustomerAdmitsAll ==
    (/\ op = "require_tenant_access"
     /\ arg.required_level = "sub_customer"
     /\ Truthy(arg.user))
    => (out.kind = "return" /\ out.user = arg.user)

\* C23, as stated: between tenants of different ids, can_access grants
\* access only when the requester's rank is strictly above the target's.
C23_StrictlyDownward ==
    (/\ op = "can_access"
     /\ arg.requester_tenant_id # arg.target_tenant_id
     /\ out.ok)
    => Rank(arg.requester_type) > Rank(arg.target_type)

\* C23, amended: between tenants of different ids, can_access grants access
\* only when the requester is root, or when the requester's rank is
\* strictly above the target's and the target's type is a known one; a
\* requester that is not root never reaches a tenant of equal or higher
\* rank.
C23_DownwardExceptRoot ==
    (/\ op = "can_access"
     /\ arg.requester_tenant_id # arg.target_tenant_id
     /\ out.ok)
    => \/ arg.requester_type = "root"
       \/ /\ Rank(arg.requester_type) > Rank(arg.target_type)
          /\ Rank(arg.target_type) > 0

\* a root tenant has been granted access to another root tenant
C23_Witness ==
    /\ op = "can_access"
    /\ arg.requester_tenant_id # arg.target_tenant_id
    /\ arg.requester_type = "root"
    /\ arg.target_type = "root"
    /\ out.ok = TRUE

\* C24: the default permissions of role "admin" are the whole catalog, and
\* those of "analyst" and "viewer" are subsets of it.
C24_AdminDefaultIsCatalog ==
    op = "DEFAULT_ROLE_PERMISSIONS.get" =>
        /\ arg.role = "admin" => out.perms = Permissions
        /\ arg.role \in {"analyst", "viewer"} => out.perms \subseteq Permissions

\* the defaults of admin have been looked up and hold the last permission
\* of the catalog
C24_Witness ==
    /\ op = "DEFAULT_ROLE_PERMISSIONS.get"
    /\ arg.role = "admin"
    /\ "audit_logs:read" \in out.perms
    /\ Cardinality(out.perms) = 33

\* C30: with a required_level that is not one of the four level names, the
\* checker admits every authenticated principal, one whose tenant_type is
\* missing or unrecognized included; only an absent principal is rejected,
\* with 401.
C30_UnknownLevelAdmitsAll ==
    (op = "require_tenant_access" /\ arg.required_level \in UnknownLevels) =>
        IF Truthy(arg.user)
        THEN out.kind = "return" /\ out.user = arg.user
        ELSE out.kind = "raise" /\ out.status = 401

\* a principal without tenant_type has been admitted at an unknown level
C30_Witness ==
    /\ op = "require_tenant_access"
    /\ arg.required_level \in UnknownLevels
    /\ Truthy(arg.user)
    /\ "tenant_type" \notin arg.user.keys
    /\ out.kind = "return"

-----------------------------------------------------------------------------
(* Claims about the inventory API, under SpecApi *)

\* the inventory permission an operation requires
RequiredPermission(endpoint) ==
    IF endpoint = "receive_from_n8n" THEN "inventory:write" ELSE "inventory:approve"

\* the operation of the served request took effect: items went through the
\* ingestion pipeline, or the approve / reject call was answered as done
TookEffect ==
    \/ areq.endpoint = "receive_from_n8n" /\ aitems # <<>>
    \/ areq.endpoint \in {"approve_item", "reject_item"}
        /\ aresp.status = 200 /\ aresp.decision # ""

\* C25: on every path through the inventory API, an ingestion, approve or
\* reject operation takes effect only after the access decision for the
\* calling principal was allow; a principal without the required inventory
\* permission never causes one.
C25_EffectOnlyAfterAllow ==
    (apc = "RESPONDED" /\ TookEffect) =>
        /\ adecision = "allow"
        /\ RequiredPermission(areq.endpoint) \in DEFAULT_ROLE_PERMISSIONS(areq.caller.role)

\* C26: every item produced by ingestion carries the tenant id of the
\* principal that submitted the batch, and items ingested through the
\* webhook by principals of two different tenants never carry the same
\* tenant id.
C26_ItemsCarryCallerTenant ==
    /\ \A i \in DOMAIN alog : \A k \in DOMAIN alog[i].item_tenant_ids :
        alog[i].item_tenant_ids[k] = alog[i].caller.tenant
    /\ \A i \in DOMAIN alog : \A j \in DOMAIN alog :
        alog[i].caller.tenant # alog[j].caller.tenant =>
            Range(alog[i].item_tenant_ids) \cap Range(alog[j].item_tenant_ids) = {}

-----------------------------------------------------------------------------
(* Claims about providers, passes and scores, under SpecInventory *)

\* the response envelope of a provider's own API: "completion" for the
\* /v1/complete endpoint of anthropic, "response" for /api/generate of
\* ollama, "choices" for the chat-completions endpoints
OwnEnvelope(provider) ==
    IF provider = "anthropic" THEN "completion"
    ELSE IF provider = "ollama" THEN "response"
    ELSE "choices"

\* the content is one JSON object, possibly surrounded by brace-free prose
ObjectInProse(c) ==
    \E i \in DOMAIN c :
        /\ i < Len(c) /\ c[i] = "{" /\ c[i + 1] = "}"
        /\ \A j \in DOMAIN c \ {i, i + 1} : c[j] = "x"

\* C27: for every provider of the fixed set, when the backend answers 2xx
\* with that provider's own envelope and the content holds a well-typed
\* JSON object, possibly within brace-free prose, whose decision d is one
\* of the four, process_item returns an AIOutput of decision d through
\* PARSED_OK.
C27_OwnEnvelopeIsParsed ==
    (/\ pc \in {"DONE", "RAISED", "RETURNED", "UPDATED"}
     /\ svc.provider \in ProviderNames
     /\ eq.typed
     /\ resp.transport = "ok"
     /\ resp.status >= 200 /\ resp.status <= 299
     /\ resp.body = OwnEnvelope(svc.provider)
     /\ resp.content_str
     /\ ObjectInProse(resp.content)
     /\ resp.fields \notin IllTypedFields
     /\ resp.fields.decision \in {JStr(d) : d \in Decisions})
    => /\ stage = "PARSED_OK"
       /\ ai_out.decision = resp.fields.decision.s[1]

\* the place of a position in the pass
PassRank(p) ==
    IF p = "IDLE" THEN 0 ELSE IF p = "START" THEN 1
    ELSE IF p = "PROMPT_BUILT" THEN 2 ELSE IF p = "BACKEND_CALLED" THEN 3
    ELSE IF p \in {"PARSED_OK", "PARSE_FAILED", "CALL_FAILED"} THEN 4
    ELSE IF p = "DONE" THEN 5 ELSE IF p = "RETURNED" THEN 6
    ELSE IF p = "UPDATED" THEN 7 ELSE 99

\* the steps of the pass; a run whose prompt cannot be built ends at once
PassEdges ==
    { <<"START", "PROMPT_BUILT">>, <<"START", "DONE">>,
      <<"PROMPT_BUILT", "BACKEND_CALLED">>,
      <<"BACKEND_CALLED", "PARSED_OK">>, <<"BACKEND_CALLED", "PARSE_FAILED">>,
      <<"BACKEND_CALLED", "CALL_FAILED">>,
      <<"PARSED_OK", "DONE">>, <<"PARSE_FAILED", "DONE">>, <<"CALL_FAILED", "DONE">> }

\* one step of a run of an item through a service that has an AI
PassStep ==
    /\ (pc \in {"START", "PROMPT_BUILT", "BACKEND_CALLED", "PARSED_OK", "PARSE_FAILED",
                "CALL_FAILED"} /\ svc.provider # NoAI /\ pc' # pc)
        => /\ <<pc, pc'>> \in PassEdges
           /\ PassRank(pc') > PassRank(pc)
    /\ calls' # calls =>
        /\ pc = "PROMPT_BUILT" /\ pc' = "BACKEND_CALLED"
        /\ calls = 0 /\ calls' = 1
    /\ (pc = "START" /\ pc' = "DONE") => ~eq.typed

\* C28: a run of AIService.process_item is one pass START -> PROMPT_BUILT
\* -> BACKEND_CALLED -> (PARSED_OK | PARSE_FAILED | CALL_FAILED) -> DONE:
\* the prompt is built before the backend is called, the backend is called
\* at most once, no position is revisited, and every run reaches DONE.
C28_SinglePass ==
    /\ [][PassStep]_vars
    /\ [](calls <= 1)
    /\ (pc = "START" /\ svc.provider # NoAI) ~> (pc = "DONE")

\* a run whose call timed out has ended after one call
C28_Witness ==
    /\ pc = "DONE"
    /\ stage = "CALL_FAILED"
    /\ resp.transport = "TimeoutException"
    /\ calls = 1
    /\ ai_out.decision = "pending"

\* C29: whatever the backend responds, the suggested_risk_score of the
\* AIOutput that process_item returns, and the risk_score of the item built
\* from it, is an integer in 0..100.
C29_ScoreInRange ==
    pc \in {"DONE", "RETURNED", "UPDATED"} =>
        /\ ai_out.suggested_risk_score \in 0..100
        /\ item # NoItem => item.risk_score \in 0..100

====
